---- MODULE Spec2Model ----
(***************************************************************************)
(* Model of crates/eldenring/src/dlut.rs: DLFixedVector<T, C> (fixed        *)
(* capacity inline vector over MaybeUninit slots) and DLAutoDeletePtr<T>    *)
(* (owning pointer whose allocator is looked up at drop time).              *)
(***************************************************************************)
EXTENDS Integers, Sequences, FiniteSets, TLC

\* ---------------------------------------------------------------- bounds
MaxCap == 3
MaxPanics == 1
MaxHandles == 3
RangeSize == 2
MaxObjs == 3
MaxCount == 3

MaxArg == MaxCap + 1
Vals == {"A", "B"}
NoVal == "-"

VARIABLES cap, elements, checked_len, pc, ctx, dropLog, panics,
          heap, handles, allocs, deallocs, lookups, pres,
          rc, rcLast,
          overflow_checks, pending, dtCur, dtPrev

vecVars == <<cap, elements, checked_len, pc, ctx, dropLog, panics>>
ptrVars == <<heap, handles, allocs, deallocs, lookups, pres>>
rcVars == <<rc, rcLast>>
dateVars == <<overflow_checks, pending, dtCur, dtPrev>>
vars == <<cap, elements, checked_len, pc, ctx, dropLog, panics,
          heap, handles, allocs, deallocs, lookups, pres,
          rc, rcLast,
          overflow_checks, pending, dtCur, dtPrev>>

Min(a, b) == IF a < b THEN a ELSE b

\* ------------------------------------------------- DLFixedVector<T, C>
\* One MaybeUninit<T> slot: never written, holding a live value, or holding
\* the bits of a value whose destructor has run n times.
Uninit == [st |-> "uninit", v |-> NoVal, n |-> 0]

MaybeUninit_new(value) == [st |-> "live", v |-> value, n |-> 0]

assume_init_drop(slot) == [slot EXCEPT !.st = "dead", !.n = @ + 1]

capacity == cap

\* as_slice().len(): `self.elements[0]` is a checked index into an array of
\* C slots, so it panics when C = 0; otherwise the slice has checked_len
\* elements.
len == [panic |-> (cap = 0), n |-> checked_len]

\* The call in progress or last finished: its name, arguments (new_len, val),
\* the length it read on entry (prev_len), the loop index i, how it ended
\* (ret) and the value its Err carries back (carried).
Ctx(op, new_len, prev_len, i, ret, val, carried) ==
    [op |-> op, new_len |-> new_len, prev_len |-> prev_len, i |-> i,
     ret |-> ret, val |-> val, carried |-> carried]

\* State after the call `op` has ended with result `ret`; a drop ends the
\* vector's life however it ends.
Return(op, new_len, prev_len, ret, val, carried) ==
    /\ ctx' = Ctx(op, new_len, prev_len, 0, ret, val, carried)
    /\ pc' = IF op = "drop" THEN "dropped" ELSE "idle"

\* The value a finished truncate hands to its caller: resize returns Ok(()),
\* truncate and drop return ().
RetOf(op) == IF op = "resize" THEN "Ok" ELSE "unit"

default ==
    /\ cap \in 0..MaxCap
    /\ elements = [i \in 0..(cap - 1) |-> Uninit]
    /\ checked_len = 0
    /\ pc = "idle"
    /\ ctx = Ctx("default", 0, 0, 0, "unit", NoVal, NoVal)
    /\ dropLog = <<>>
    /\ panics = 0

\* push with the length written before the capacity check.
push_len_first(value) ==
    /\ pc = "idle"
    /\ dropLog' = <<>>
    /\ UNCHANGED <<cap, panics>>
    /\ IF len.panic
       THEN /\ Return("push", 0, checked_len, "panic", value, NoVal)
            /\ UNCHANGED <<elements, checked_len>>
       ELSE LET prev_len == len.n IN
            /\ checked_len' = prev_len + 1
            /\ IF prev_len + 1 > capacity
               THEN /\ Return("push", 0, prev_len, "Err", value, value)
                    /\ UNCHANGED elements
               ELSE /\ elements' = [elements EXCEPT ![prev_len] = MaybeUninit_new(value)]
                    /\ Return("push", 0, prev_len, "Ok", value, NoVal)

\* push that writes the slot but leaves checked_len at prev_len.
push_stale_len(value) ==
    /\ pc = "idle"
    /\ dropLog' = <<>>
    /\ UNCHANGED <<cap, panics>>
    /\ IF len.panic
       THEN /\ Return("push", 0, checked_len, "panic", value, NoVal)
            /\ UNCHANGED <<elements, checked_len>>
       ELSE LET prev_len == len.n IN
            IF prev_len + 1 > capacity
            THEN /\ Return("push", 0, prev_len, "Err", value, value)
                 /\ UNCHANGED <<elements, checked_len>>
            ELSE /\ elements' = [elements EXCEPT ![prev_len] = MaybeUninit_new(value)]
                 /\ checked_len' = prev_len
                 /\ Return("push", 0, prev_len, "Ok", value, NoVal)

push(value) ==
    /\ pc = "idle"
    /\ dropLog' = <<>>
    /\ UNCHANGED <<cap, panics>>
    /\ IF len.panic
       THEN /\ Return("push", 0, checked_len, "panic", value, NoVal)
            /\ UNCHANGED <<elements, checked_len>>
       ELSE LET prev_len == len.n IN
            IF prev_len + 1 > capacity
            THEN /\ Return("push", 0, prev_len, "Err", value, value)
                 /\ UNCHANGED <<elements, checked_len>>
            ELSE /\ elements' = [elements EXCEPT ![prev_len] = MaybeUninit_new(value)]
                 /\ checked_len' = prev_len + 1
                 /\ Return("push", 0, prev_len, "Ok", value, NoVal)

\* truncate whose loop starts one slot late (new_len + 1 .. prev_len).
truncate_enter_skip_first(op, new_len, val) ==
    /\ dropLog' = <<>>
    /\ UNCHANGED <<cap, elements, checked_len, panics>>
    /\ IF len.panic
       THEN Return(op, new_len, checked_len, "panic", val, NoVal)
       ELSE LET prev_len == len.n IN
            IF new_len < prev_len
            THEN /\ ctx' = Ctx(op, new_len, prev_len, new_len + 1, "running", val, NoVal)
                 /\ pc' = "truncate"
            ELSE Return(op, new_len, prev_len, RetOf(op), val, NoVal)

\* Entry of truncate(new_len) on behalf of `op` (truncate itself, resize or
\* drop): reads len() and either starts the destruction loop at i = new_len
\* or returns at once.
truncate_enter(op, new_len, val) ==
    /\ dropLog' = <<>>
    /\ UNCHANGED <<cap, elements, checked_len, panics>>
    /\ IF len.panic
       THEN Return(op, new_len, checked_len, "panic", val, NoVal)
       ELSE LET prev_len == len.n IN
            IF new_len < prev_len
            THEN /\ ctx' = Ctx(op, new_len, prev_len, new_len, "running", val, NoVal)
                 /\ pc' = "truncate"
            ELSE Return(op, new_len, prev_len, RetOf(op), val, NoVal)

truncate(new_len) ==
    /\ pc = "idle"
    /\ truncate_enter("truncate", new_len, NoVal)

\* One iteration of `for i in new_len..prev_len`: the destructor of slot i
\* runs; it either returns, or panics and unwinds out of the call with
\* checked_len not yet written.
truncate_loop ==
    /\ pc = "truncate"
    /\ ctx.i < ctx.prev_len
    /\ elements' = [elements EXCEPT ![ctx.i] = assume_init_drop(@)]
    /\ dropLog' = Append(dropLog, ctx.i)
    /\ UNCHANGED <<cap, checked_len>>
    /\ \/ /\ ctx' = [ctx EXCEPT !.i = @ + 1]
          /\ UNCHANGED <<pc, panics>>
       \/ /\ panics < MaxPanics
          /\ panics' = panics + 1
          /\ Return(ctx.op, ctx.new_len, ctx.prev_len, "panic", ctx.val, NoVal)

\* After the loop: `self.checked_len = new_len`.
truncate_end ==
    /\ pc = "truncate"
    /\ ctx.i >= ctx.prev_len
    /\ checked_len' = ctx.new_len
    /\ Return(ctx.op, ctx.new_len, ctx.prev_len, RetOf(ctx.op), ctx.val, NoVal)
    /\ UNCHANGED <<cap, elements, dropLog, panics>>

\* resize whose capacity check is off by one (new_len > capacity + 1): the
\* write to elements[capacity] is then an out-of-bounds index, which panics.
resize_off_by_one(new_len, value) ==
    /\ pc = "idle"
    /\ IF new_len > capacity + 1
       THEN /\ Return("resize", new_len, checked_len, "Err", value, value)
            /\ dropLog' = <<>>
            /\ UNCHANGED <<cap, elements, checked_len, panics>>
       ELSE IF len.panic
       THEN /\ Return("resize", new_len, checked_len, "panic", value, NoVal)
            /\ dropLog' = <<>>
            /\ UNCHANGED <<cap, elements, checked_len, panics>>
       ELSE IF new_len < len.n
       THEN truncate_enter("resize", new_len, value)
       ELSE /\ elements' = [i \in DOMAIN elements |->
                              IF i >= len.n /\ i < new_len
                              THEN MaybeUninit_new(value)
                              ELSE elements[i]]
            /\ checked_len' = IF new_len > capacity THEN checked_len ELSE new_len
            /\ Return("resize", new_len, len.n,
                      IF new_len > capacity THEN "panic" ELSE "Ok", value, NoVal)
            /\ dropLog' = <<>>
            /\ UNCHANGED <<cap, panics>>

resize(new_len, value) ==
    /\ pc = "idle"
    /\ IF new_len > capacity
       THEN /\ Return("resize", new_len, checked_len, "Err", value, value)
            /\ dropLog' = <<>>
            /\ UNCHANGED <<cap, elements, checked_len, panics>>
       ELSE IF len.panic
       THEN /\ Return("resize", new_len, checked_len, "panic", value, NoVal)
            /\ dropLog' = <<>>
            /\ UNCHANGED <<cap, elements, checked_len, panics>>
       ELSE IF new_len < len.n
       THEN truncate_enter("resize", new_len, value)
       ELSE /\ elements' = [i \in DOMAIN elements |->
                              IF i >= len.n /\ i < new_len
                              THEN MaybeUninit_new(value)
                              ELSE elements[i]]
            /\ checked_len' = new_len
            /\ Return("resize", new_len, len.n, "Ok", value, NoVal)
            /\ dropLog' = <<>>
            /\ UNCHANGED <<cap, panics>>

\* impl Drop: self.truncate(0)
DLFixedVector_drop ==
    /\ pc = "idle"
    /\ truncate_enter("drop", 0, NoVal)

NextVec ==
    \/ \E value \in Vals : push(value) /\ UNCHANGED <<ptrVars, rcVars, dateVars>>
    \/ \E new_len \in 0..MaxArg : truncate(new_len) /\ UNCHANGED <<ptrVars, rcVars, dateVars>>
    \/ truncate_loop /\ UNCHANGED <<ptrVars, rcVars, dateVars>>
    \/ truncate_end /\ UNCHANGED <<ptrVars, rcVars, dateVars>>
    \/ \E new_len \in 0..MaxArg, value \in Vals :
          resize(new_len, value) /\ UNCHANGED <<ptrVars, rcVars, dateVars>>
    \/ DLFixedVector_drop /\ UNCHANGED <<ptrVars, rcVars, dateVars>>

\* ------------------------------------------------- DLAutoDeletePtr<T>
\* Two allocator capabilities over disjoint address ranges; address 0 is
\* the null pointer.
Allocators == {"P", "Q"}

Null == 0

Range(allocator) ==
    IF allocator = "P" THEN 1..RangeSize ELSE (RangeSize + 1)..(2 * RangeSize)

Addrs == 1..(2 * RangeSize)

\* The allocator try_new reaches through Program::current().rva_to_va(..).
ingame_heap_allocator == "P"

Handles == 1..MaxHandles

\* DLAllocatorBase::allocate_aligned: a block of the allocator's own range
\* that is not in use, or null when the request cannot be satisfied.
allocate_aligned(allocator) ==
    {a \in Range(allocator) : heap[a].st = "free"} \cup {Null}

\* The registry lookup: the allocator whose range contains the address.
get_heap_allocator_of(ptr) == CHOOSE c \in Allocators : ptr \in Range(c)

\* DLAllocatorBase::deallocate as seen from outside: the call is counted
\* per (allocator, address) and the block becomes free again, its contents
\* no longer meaningful.
deallocate(allocator, ptr) ==
    /\ deallocs' = [deallocs EXCEPT ![<<allocator, ptr>>] = @ + 1]
    /\ heap' = [heap EXCEPT ![ptr].st = "free", ![ptr].val = NoVal]

PtrInit ==
    /\ heap = [a \in Addrs |-> [st |-> "free", by |-> NoVal, val |-> NoVal]]
    /\ handles = [h \in Handles |-> [st |-> "unborn", ptr |-> Null]]
    /\ allocs = [a \in Addrs |-> 0]
    /\ deallocs = [ca \in Allocators \X Addrs |-> 0]
    /\ lookups = 0
    /\ pres = [op |-> "none", ret |-> "none", value |-> NoVal]

\* try_new_in called by `op` for the binding h: on null the `?` returns
\* None and the value, owned by the call, is dropped with it; otherwise the
\* value is written to the block and the handle owns the address.
try_new_in_from(op, h, value, allocator) ==
    /\ handles[h].st = "unborn"
    /\ \E ptr \in allocate_aligned(allocator) :
          IF ptr = Null
          THEN /\ pres' = [op |-> op, ret |-> "None", value |-> "dropped"]
               /\ UNCHANGED <<heap, handles, allocs>>
          ELSE /\ heap' = [heap EXCEPT ![ptr] =
                              [st |-> "alloc", by |-> allocator, val |-> value]]
               /\ allocs' = [allocs EXCEPT ![ptr] = @ + 1]
               /\ handles' = [handles EXCEPT ![h] = [st |-> "holding", ptr |-> ptr]]
               /\ pres' = [op |-> op, ret |-> "Some", value |-> "stored"]
    /\ UNCHANGED <<deallocs, lookups>>

try_new_in(h, value, allocator) ==
    try_new_in_from("try_new_in", h, value, allocator)

try_new(h, value) ==
    try_new_in_from("try_new", h, value, ingame_heap_allocator)

\* A move of the handle out of binding src into binding dst: the type is
\* neither Copy nor Clone, so src is left moved-from.
move(src, dst) ==
    /\ handles[src].st = "holding"
    /\ handles[dst].st = "unborn"
    /\ handles' = [handles EXCEPT ![dst] = handles[src],
                                  ![src] = [st |-> "moved", ptr |-> Null]]
    /\ pres' = [op |-> "move", ret |-> "none", value |-> NoVal]
    /\ UNCHANGED <<heap, allocs, deallocs, lookups>>

\* drop that frees through the in-game heap allocator without a lookup.
drop_on_ingame_heap(h) ==
    /\ handles[h].st = "holding"
    /\ LET ptr == handles[h].ptr IN
          /\ lookups' = lookups + 1
          /\ deallocate(ingame_heap_allocator, ptr)
    /\ handles' = [handles EXCEPT ![h] = [st |-> "released", ptr |-> Null]]
    /\ pres' = [op |-> "drop", ret |-> "none", value |-> NoVal]
    /\ UNCHANGED allocs

\* drop that looks the allocator up but never calls deallocate.
drop_without_deallocate(h) ==
    /\ handles[h].st = "holding"
    /\ lookups' = lookups + 1
    /\ handles' = [handles EXCEPT ![h] = [st |-> "released", ptr |-> Null]]
    /\ pres' = [op |-> "drop", ret |-> "none", value |-> NoVal]
    /\ UNCHANGED <<heap, allocs, deallocs>>

\* impl Drop, run when a binding that holds its value goes out of scope:
\* the address is looked up and handed to deallocate. Nothing in the body
\* touches the owned T (no drop_in_place), so the call reports no event for
\* the value (pres.value stays NoVal, where a destructor run would read
\* "dropped" as it does in try_new_in).
DLAutoDeletePtr_drop(h) ==
    /\ handles[h].st = "holding"
    /\ LET ptr == handles[h].ptr
           allocator == get_heap_allocator_of(ptr)
       IN  /\ lookups' = lookups + 1
           /\ deallocate(allocator, ptr)
    /\ handles' = [handles EXCEPT ![h] = [st |-> "released", ptr |-> Null]]
    /\ pres' = [op |-> "drop", ret |-> "none", value |-> NoVal]
    /\ UNCHANGED allocs

\* A moved-from binding goes out of scope: no drop glue runs for it.
scope_end_moved(h) ==
    /\ handles[h].st = "moved"
    /\ handles' = [handles EXCEPT ![h].st = "ended_moved"]
    /\ pres' = [op |-> "scope_end", ret |-> "none", value |-> NoVal]
    /\ UNCHANGED <<heap, allocs, deallocs, lookups>>

NextPtr ==
    \/ \E h \in Handles, value \in Vals, allocator \in Allocators :
          try_new_in(h, value, allocator) /\ UNCHANGED <<vecVars, rcVars, dateVars>>
    \/ \E h \in Handles, value \in Vals : try_new(h, value) /\ UNCHANGED <<vecVars, rcVars, dateVars>>
    \/ \E src \in Handles, dst \in Handles : move(src, dst) /\ UNCHANGED <<vecVars, rcVars, dateVars>>
    \/ \E h \in Handles : DLAutoDeletePtr_drop(h) /\ UNCHANGED <<vecVars, rcVars, dateVars>>
    \/ \E h \in Handles : scope_end_moved(h) /\ UNCHANGED <<vecVars, rcVars, dateVars>>

\* ---------------------------------------- DLReferenceCountObjectBase
Objs == 1..MaxObjs

\* The header of one object: its reference_count and, in call order, the
\* DLReferenceCountObjectVmt slots that have been invoked on it.
Header(count) == [reference_count |-> count, hooks |-> <<>>]

RcInit ==
    /\ rc \in [Objs -> {Header(n) : n \in 1..2}]
    /\ rcLast = [op |-> "none", obj |-> 0, before |-> 0]

\* One more reference is taken on a live object.
increment(o) ==
    /\ rc[o].reference_count > 0
    /\ rc[o].reference_count < MaxCount
    /\ rc' = [rc EXCEPT ![o].reference_count = @ + 1]
    /\ rcLast' = [op |-> "increment", obj |-> o, before |-> rc[o].reference_count]

\* decrement that runs the destructor slot before clean_up.
decrement_destructor_first(o) ==
    /\ rc[o].reference_count > 0
    /\ LET n == rc[o].reference_count - 1 IN
       rc' = [rc EXCEPT ![o] =
                [reference_count |-> n,
                 hooks |-> IF n = 0
                           THEN rc[o].hooks \o <<"destructor", "clean_up">>
                           ELSE rc[o].hooks]]
    /\ rcLast' = [op |-> "decrement", obj |-> o, before |-> rc[o].reference_count]

\* decrement that runs both slots on every call.
decrement_always_notifies(o) ==
    /\ rc[o].reference_count > 0
    /\ rc' = [rc EXCEPT ![o] =
                [reference_count |-> rc[o].reference_count - 1,
                 hooks |-> rc[o].hooks \o <<"clean_up", "destructor">>]]
    /\ rcLast' = [op |-> "decrement", obj |-> o, before |-> rc[o].reference_count]

\* A reference is released: the count drops by one and, when it reaches 0,
\* clean_up and then destructor are invoked through the vftable before the
\* call returns. Releasing an object whose count is already 0 is outside the
\* contract and is not a step.
decrement(o) ==
    /\ rc[o].reference_count > 0
    /\ LET n == rc[o].reference_count - 1 IN
       rc' = [rc EXCEPT ![o] =
                [reference_count |-> n,
                 hooks |-> IF n = 0
                           THEN rc[o].hooks \o <<"clean_up", "destructor">>
                           ELSE rc[o].hooks]]
    /\ rcLast' = [op |-> "decrement", obj |-> o, before |-> rc[o].reference_count]

NextRc ==
    \/ \E o \in Objs : increment(o) /\ UNCHANGED <<vecVars, ptrVars, dateVars>>
    \/ \E o \in Objs : decrement(o) /\ UNCHANGED <<vecVars, ptrVars, dateVars>>

\* ------------------------------------------- u64 arithmetic for time64
INTERVALS_PER_SECOND == 10000000

INTERVALS_PER_MILLISECOND == 10000

\* TLC integers are 32 bits wide, so the u64 quantities of calculate_time64
\* are held in mixed radix: a number of seconds as [d, s] = d * 86400 + s
\* with s < 86400, a number of 100 ns intervals as [d, ms, t] =
\* (d * 86400000 + ms) * 10000 + t with ms < 86400000 and t < 10000.
Secs(d, s) == [d |-> d + (s \div 86400), s |-> s % 86400]

Ticks(d, ms, t) ==
    LET m == ms + (t \div 10000)
    IN  [d |-> d + (m \div 86400000), ms |-> m % 86400000, t |-> t % 10000]

TicksLess(x, y) ==
    \/ x.d < y.d
    \/ x.d = y.d /\ x.ms < y.ms
    \/ x.d = y.d /\ x.ms = y.ms /\ x.t < y.t

\* x - y for x >= y.
TicksSub(x, y) ==
    LET bt == IF x.t < y.t THEN 1 ELSE 0
        bm == IF x.ms - bt < y.ms THEN 1 ELSE 0
    IN  [d |-> x.d - y.d - bm,
         ms |-> x.ms - bt - y.ms + bm * 86400000,
         t |-> x.t - y.t + bt * 10000]

\* 2^64 = 18446744073709551616
\*      = (21350398 * 86400000 + 20170955) * 10000 + 1616
TwoPow64 == [d |-> 21350398, ms |-> 20170955, t |-> 1616]

\* A u64 during the computation: `neg = FALSE` stands for the value mag,
\* `neg = TRUE` for the wrapped value 2^64 - mag (mag > 0); ovf records
\* whether some step so far left the u64 range.
U64(neg, mag, ovf) == [neg |-> neg, mag |-> mag, ovf |-> ovf]

\* `days_since_1601 as u64`: a negative i64 becomes 2^64 - |days|.
u64_from_i64(n) ==
    IF n >= 0 THEN U64(FALSE, n, FALSE) ELSE U64(TRUE, 0 - n, FALSE)

\* `days * 86400` in u64, the result in seconds. A non-negative number of
\* days is below 2^25 here, so only a wrapped negative one overflows.
u64_mul_86400(a) == U64(a.neg, Secs(a.mag, 0), a.neg)

\* `a + x` in u64 for seconds a and a small x.
u64_add_secs(a, x) ==
    IF a.neg
    THEN IF a.mag.d > 0 \/ a.mag.s > x
         THEN U64(TRUE,
                  IF a.mag.s >= x
                  THEN Secs(a.mag.d, a.mag.s - x)
                  ELSE Secs(a.mag.d - 1 - ((x - a.mag.s - 1) \div 86400),
                            86400 - 1 - ((x - a.mag.s - 1) % 86400)),
                  a.ovf)
         ELSE U64(FALSE, Secs(0, x - a.mag.s), TRUE)
    ELSE U64(FALSE, Secs(a.mag.d, a.mag.s + x), a.ovf)

\* `total_seconds * INTERVALS_PER_SECOND` in u64, the result in intervals.
u64_mul_intervals(a) ==
    LET p == Ticks(a.mag.d,
                   a.mag.s * (INTERVALS_PER_SECOND \div INTERVALS_PER_MILLISECOND),
                   0) IN
    IF a.neg THEN U64(TRUE, p, TRUE)
    ELSE IF TicksLess(p, TwoPow64) THEN U64(FALSE, p, a.ovf)
    ELSE U64(FALSE, TicksSub(p, TwoPow64), TRUE)

\* `a + x` in u64 for intervals a and x < 2^31 intervals.
u64_add_ticks(a, x) ==
    LET b == Ticks(0, 0, x) IN
    IF a.neg
    THEN IF TicksLess(b, a.mag)
         THEN U64(TRUE, TicksSub(a.mag, b), a.ovf)
         ELSE U64(FALSE, TicksSub(b, a.mag), TRUE)
    ELSE LET sum == Ticks(a.mag.d, a.mag.ms + b.ms, a.mag.t + b.t) IN
         IF TicksLess(sum, TwoPow64) THEN U64(FALSE, sum, a.ovf)
         ELSE U64(FALSE, TicksSub(sum, TwoPow64), TRUE)

\* The u64 a value stands for.
u64_bits(a) == IF a.neg THEN TicksSub(TwoPow64, a.mag) ELSE a.mag

\* ------------------------------------------------ PackedDate (bitfield)
\* The u64 behind PackedDate, bit 0 first.
Bits == 0..63

RECURSIVE Pow2(_)
Pow2(n) == IF n = 0 THEN 1 ELSE 2 * Pow2(n - 1)

PackedDate_default == [i \in Bits |-> 0]

\* A generated setter: the value is shifted to lsb and masked to the field
\* msb..lsb, the other bits are kept.
set_bit_range(date, msb, lsb, value) ==
    [i \in Bits |-> IF i >= lsb /\ i <= msb
                    THEN (value \div Pow2(i - lsb)) % 2
                    ELSE date[i]]

RECURSIVE bit_range(_, _, _)
\* A generated getter: the field msb..lsb as a number.
bit_range(date, msb, lsb) ==
    IF msb < lsb THEN 0
    ELSE date[lsb] + 2 * bit_range(date, msb, lsb + 1)

set_year(date, v) == set_bit_range(date, 11, 0, v)
set_millisecond(date, v) == set_bit_range(date, 21, 12, v)
set_month(date, v) == set_bit_range(date, 25, 22, v)
\* set_day declared one bit too low (33, 28), reaching into day_of_week.
set_day_from_28(date, v) == set_bit_range(date, 33, 28, v)

set_day(date, v) == set_bit_range(date, 33, 29, v)
set_hours(date, v) == set_bit_range(date, 38, 34, v)
set_minutes(date, v) == set_bit_range(date, 44, 39, v)
set_seconds(date, v) == set_bit_range(date, 50, 45, v)
set_is_utc(date, b) == set_bit_range(date, 51, 51, IF b THEN 1 ELSE 0)

\* ------------------------------------------------------------ DLDateTime
TruncDiv(a, b) == IF a >= 0 THEN a \div b ELSE 0 - ((0 - a) \div b)

\* is_leap_year without the 400-year rule.
is_leap_year_no_400(year) == year % 4 = 0 /\ year % 100 # 0

is_leap_year(year) == (year % 4 = 0 /\ year % 100 # 0) \/ year % 400 = 0

DAYS_BEFORE_MONTH == <<0, 0, 31, 59, 90, 120, 151, 181, 212, 243, 273, 304, 334>>

\* days_since_1601 in i64; DAYS_BEFORE_MONTH[month as usize] is the array
\* entry at offset month (the sequence above is 1-based).
days_since_1601(year, month, day) ==
    LET y == year - 1601 IN
    y * 365
    + (TruncDiv(y, 4) - TruncDiv(y, 100) + TruncDiv(y, 400))
    + DAYS_BEFORE_MONTH[month + 1]
    + (day - 1)
    + (IF is_leap_year(year) /\ month > 2 THEN 1 ELSE 0)

\* calculate_time64 for month <= 12, step by step in u64.
calculate_time64(year, month, day, hours, minutes, seconds, milliseconds) ==
    LET d == u64_from_i64(days_since_1601(year, month, day))
        total_seconds ==
            u64_add_secs(u64_add_secs(u64_add_secs(u64_mul_86400(d),
                                                   hours * 3600),
                                      minutes * 60),
                         seconds)
    IN  u64_add_ticks(u64_mul_intervals(total_seconds),
                      milliseconds * INTERVALS_PER_MILLISECOND)

NoDate == [ret |-> "none", args |-> <<>>, time64 |-> Ticks(0, 0, 0),
           date |-> PackedDate_default]

\* DLDateTime::new(args), args = <<year, month, day, hours, minutes,
\* seconds, milliseconds, is_utc>>. The call panics when month indexes past
\* DAYS_BEFORE_MONTH, and, in a build with overflow checks, when a u64 step
\* of calculate_time64 overflows; otherwise it returns the struct.
new(a) ==
    LET date == set_is_utc(set_millisecond(set_seconds(set_minutes(set_hours(
                  set_day(set_month(set_year(PackedDate_default, a[1]), a[2]),
                  a[3]), a[4]), a[5]), a[6]), a[7]), a[8])
    IN  IF a[2] > 12
        THEN [NoDate EXCEPT !.ret = "panic", !.args = a]
        ELSE LET t == calculate_time64(a[1], a[2], a[3], a[4], a[5], a[6], a[7]) IN
             IF overflow_checks /\ t.ovf
             THEN [NoDate EXCEPT !.ret = "panic", !.args = a]
             ELSE [ret |-> "built", args |-> a, time64 |-> u64_bits(t),
                   date |-> date]

year(dt) == bit_range(dt.date, 11, 0)
month(dt) == bit_range(dt.date, 25, 22)
day_of_week(dt) == bit_range(dt.date, 28, 26)
day(dt) == bit_range(dt.date, 33, 29)
hours(dt) == bit_range(dt.date, 38, 34)
minutes(dt) == bit_range(dt.date, 44, 39)
seconds(dt) == bit_range(dt.date, 50, 45)
millisecond(dt) == bit_range(dt.date, 21, 12)
is_utc(dt) == bit_range(dt.date, 51, 51) = 1

\* Arguments the model builds values from: calendar dates around month,
\* year, century and leap boundaries with times of day around each unit
\* boundary, the dates around the end of the u64 range, and arguments that
\* do not fit the packed fields or the calendar.
GregorianLeap(y) == (y % 4 = 0 /\ y % 100 # 0) \/ y % 400 = 0

DaysInMonth(y, m) ==
    IF m = 2 THEN (IF GregorianLeap(y) THEN 29 ELSE 28)
    ELSE IF m \in {4, 6, 9, 11} THEN 30 ELSE 31

ValidDate(a) ==
    /\ a[1] >= 1601
    /\ a[2] \in 1..12
    /\ a[3] \in 1..DaysInMonth(a[1], a[2])
    /\ a[4] \in 0..23 /\ a[5] \in 0..59 /\ a[6] \in 0..59 /\ a[7] \in 0..999

TimesOfDay ==
    {<<0, 0, 0, 0>>, <<0, 0, 59, 999>>, <<0, 1, 0, 0>>,
     <<0, 59, 59, 999>>, <<1, 0, 0, 0>>, <<23, 59, 59, 999>>}

CalendarArgs ==
    {a \in {<<y, md[1], md[2], t[1], t[2], t[3], t[4], FALSE>> :
              y \in {1601, 1900, 2000, 2001},
              md \in {<<1, 1>>, <<2, 28>>, <<2, 29>>, <<3, 1>>, <<12, 31>>},
              t \in TimesOfDay} : ValidDate(a)}

EdgeArgs ==
    {<<60056, 5, 28, 5, 36, 10, 955, TRUE>>,
     <<60056, 5, 28, 5, 36, 10, 956, TRUE>>,
     <<60056, 5, 28, 5, 36, 11, 0, FALSE>>,
     <<65535, 12, 31, 23, 59, 59, 999, TRUE>>,
     <<4095, 12, 31, 23, 59, 59, 999, TRUE>>,
     <<4096, 1, 1, 0, 0, 0, 0, TRUE>>,
     <<5000, 0, 40, 33, 70, 64, 1023, TRUE>>,
     <<2000, 12, 32, 255, 255, 255, 1024, FALSE>>,
     <<2000, 13, 1, 0, 0, 0, 0, FALSE>>,
     <<2000, 16, 1, 0, 0, 0, 0, TRUE>>,
     <<1600, 12, 31, 23, 59, 59, 999, FALSE>>,
     <<1601, 1, 0, 0, 0, 0, 0, FALSE>>,
     <<0, 0, 0, 0, 0, 0, 0, TRUE>>}

Args == CalendarArgs \cup EdgeArgs

\* A caller that is about to build two values, one after the other, from
\* the argument lists in `pending`, in a build with or without overflow
\* checks.
DateInit ==
    /\ overflow_checks \in BOOLEAN
    /\ pending \in [1..2 -> Args]
    /\ dtCur = NoDate
    /\ dtPrev = NoDate

DLDateTime_new(a) ==
    /\ pending # <<>>
    /\ a = Head(pending)
    /\ pending' = Tail(pending)
    /\ dtCur' = new(a)
    /\ dtPrev' = dtCur
    /\ UNCHANGED overflow_checks

NextDate ==
    \E a \in Args : DLDateTime_new(a) /\ UNCHANGED <<vecVars, ptrVars, rcVars>>

\* ----------------------------------------------------- specifications
\* Each specification exercises one type; the other types stay as built.
RcFixed == RcInit /\ \A o \in Objs : rc[o].reference_count = 1

DateFixed == overflow_checks = FALSE /\ pending = <<>> /\ dtCur = NoDate /\ dtPrev = NoDate

InitVec == default /\ PtrInit /\ RcFixed /\ DateFixed

SpecVec == InitVec /\ [][NextVec]_vars

InitPtr == default /\ cap = 0 /\ PtrInit /\ RcFixed /\ DateFixed

SpecPtr == InitPtr /\ [][NextPtr]_vars

InitRc == default /\ cap = 0 /\ PtrInit /\ RcInit /\ DateFixed

SpecRc == InitRc /\ [][NextRc]_vars

InitDate == default /\ cap = 0 /\ PtrInit /\ RcFixed /\ DateInit

SpecDate == InitDate /\ [][NextDate]_vars

\* ---------------------------------------------- DLFixedVector properties
\* The slot indices new_len, new_len + 1, ..., prev_len - 1 in ascending
\* order (empty when new_len >= prev_len).
Ascending(from, to) == [j \in 1..(to - from) |-> from + j - 1]

\* C1: after any sequence of push, truncate and resize calls, successful or
\* failed, the length stays within 0..C (the stored length and every value
\* len() returns) and capacity() still returns C.
C1_LenWithinCapacity ==
    [][/\ checked_len' \in 0..capacity
       /\ (~len'.panic => len'.n \in 0..capacity)
       /\ capacity' = capacity]_vars

C1_Witness ==
    /\ capacity = MaxCap
    /\ checked_len = capacity
    /\ ctx.op = "push"
    /\ ctx.ret = "Err"

\* C2: in every reachable state, the states inside truncate, resize and drop
\* included, every slot below the length holds a live value, and no call
\* destroys a slot at or above the length.
C2_SlotsBelowLenLive ==
    /\ \A i \in 0..(checked_len - 1) : elements[i].st = "live"
    /\ \A k \in 1..Len(dropLog) : dropLog[k] < ctx.prev_len

\* C3: when len() < C, push(v) returns Ok, stores v at the index equal to
\* the previous length, raises the length by exactly one and leaves every
\* element at a lower index unchanged.
C3_PushAppends ==
    [][(pc = "idle" /\ ctx'.op = "push" /\ ~len.panic /\ len.n < capacity)
       => /\ ctx'.ret = "Ok"
          /\ elements'[checked_len] = MaybeUninit_new(ctx'.val)
          /\ checked_len' = checked_len + 1
          /\ \A j \in 0..(checked_len - 1) : elements'[j] = elements[j]
          /\ dropLog' = <<>>]_vars

C3_Witness ==
    /\ ctx.op = "push"
    /\ ctx.ret = "Ok"
    /\ capacity = MaxCap
    /\ checked_len = MaxCap
    /\ elements[MaxCap - 1] = MaybeUninit_new("B")
    /\ elements[0] = MaybeUninit_new("A")

\* C4: when the length equals C, push(v) returns Err carrying exactly v and
\* leaves the sequence as it was: same length, same elements, nothing
\* destroyed.
C4_PushFullReturnsErr ==
    [][(pc = "idle" /\ ctx'.op = "push" /\ checked_len = capacity)
       => /\ ctx'.ret = "Err"
          /\ ctx'.carried = ctx'.val
          /\ UNCHANGED <<elements, checked_len>>
          /\ dropLog' = <<>>]_vars

C6_Resize ==
    [][(ctx'.op = "resize" /\ ctx'.new_len <= capacity)
       => LET n == ctx'.new_len
              L == ctx'.prev_len
          IN  /\ ctx'.ret \in {"Ok", "running"}
              /\ pc = "idle" => L = checked_len
              /\ \A j \in 0..(Min(n, L) - 1) : elements'[j] = elements[j]
              /\ ctx'.ret = "Ok"
                    => /\ checked_len' = n
                       /\ dropLog' = Ascending(n, L)
                       /\ \A j \in L..(n - 1) :
                             elements'[j] = MaybeUninit_new(ctx'.val)]_vars

\* C7: resize(n, v) with n > C returns Err carrying v, copies nothing into
\* the sequence and leaves it as it was, whatever the current length is.
C7_ResizeBeyondCapacity ==
    [][(pc = "idle" /\ ctx'.op = "resize" /\ ctx'.new_len > capacity)
       => /\ ctx'.ret = "Err"
          /\ ctx'.carried = ctx'.val
          /\ UNCHANGED <<elements, checked_len>>
          /\ dropLog' = <<>>]_vars

C7_Witness ==
    /\ ctx.op = "resize"
    /\ ctx.ret = "Err"
    /\ ctx.carried = "B"
    /\ ctx.new_len = capacity + 1
    /\ checked_len = 2
    /\ \A i \in 0..1 : elements[i] = MaybeUninit_new("A")

\* C8: over the life of the vector every stored value is destroyed exactly
\* once: never a second time, nothing that was never stored is destroyed,
\* and once drop has returned no stored value is left alive.
C8_DestroyedExactlyOnce ==
    /\ \A i \in DOMAIN elements :
          /\ elements[i].n <= 1
          /\ elements[i].st = "dead" => elements[i].v \in Vals
    /\ \A k \in 1..Len(dropLog) : dropLog[k] < ctx.prev_len
    /\ (pc = "dropped" /\ ctx.ret = "unit")
          => \A i \in DOMAIN elements : elements[i].st # "live"
\* -------------------------------------------- DLAutoDeletePtr properties
RECURSIVE SumOver(_, _)
SumOver(S, f) ==
    IF S = {} THEN 0
    ELSE LET x == CHOOSE y \in S : TRUE IN f[x] + SumOver(S \ {x}, f)

\* Number of deallocate calls an address has received, on any allocator.
TotalDeallocs(a) == SumOver({<<c, a>> : c \in Allocators}, deallocs)

Holders(a) == {h \in Handles : handles[h].st = "holding" /\ handles[h].ptr = a}

\* C9: releasing a handle whose block was allocated from allocator X calls
\* deallocate with that block's address on X and on no other allocator.
C9_DeallocateOnAllocatingCapability ==
    [][\A h \in Handles :
          (handles[h].st = "holding" /\ handles'[h].st = "released")
          => LET a == handles[h].ptr
                 X == heap[a].by
             IN  deallocs' = [deallocs EXCEPT ![<<X, a>>] = @ + 1]]_vars

C9_Witness ==
    \E b1 \in Range("P"), b2 \in Range("Q") :
       /\ heap[b1].st = "alloc" /\ heap[b1].by = "P"
       /\ heap[b2].st = "free" /\ heap[b2].by = "Q"
       /\ deallocs[<<"Q", b2>>] = 1
       /\ \A a \in Addrs : deallocs[<<"P", a>>] = 0
       /\ pres.op = "drop"

\* C10: each address obtained by a successful create is passed to
\* deallocate exactly once: one release per handle that still holds its
\* value, and no lookup and no deallocate for a moved-from or released one.
C10_ExactlyOneRelease ==
    /\ \A a \in Addrs :
          /\ Cardinality(Holders(a)) <= 1
          /\ allocs[a] = TotalDeallocs(a) + Cardinality(Holders(a))
    /\ lookups = Cardinality({h \in Handles : handles[h].st = "released"})
    /\ lookups = SumOver(Allocators \X Addrs, deallocs)

C10_Witness ==
    \E src \in Handles, dst \in Handles, a \in Addrs :
       /\ handles[src].st = "ended_moved"
       /\ handles[dst].st = "released"
       /\ allocs[a] = 2
       /\ TotalDeallocs(a) = 1
       /\ Cardinality(Holders(a)) = 1

\* C11: when allocate returns null, the create call fails without consuming
\* the value: the caller still holds it, it is not destroyed, and no
\* deallocate call is made.
C11_FailedCreateKeepsValue ==
    [][(pres'.op \in {"try_new", "try_new_in"} /\ pres'.ret = "None")
       => /\ pres'.value = "retained"
          /\ UNCHANGED <<heap, handles, deallocs>>]_vars

\* C12: dropping a handle that holds a value runs the destructor of the
\* owned value (exactly once, before deallocate gets the storage).
C12_DropRunsValueDestructor ==
    [][\A h \in Handles :
          (handles[h].st = "holding" /\ handles'[h].st = "released")
          => pres'.value = "dropped"]_vars

\* ------------------------------------ DLReferenceCountObjectBase properties
\* C13: a decrement that brings the count from 1 to 0 invokes clean_up and
\* then destructor, each exactly once, clean_up first, within that call.
C13_ZeroRunsCleanUpThenDestructor ==
    [][\A o \in Objs :
          (rc[o].reference_count = 1 /\ rc'[o].reference_count = 0)
          => /\ rc[o].hooks = <<>>
             /\ rc'[o].hooks = <<"clean_up", "destructor">>]_vars

C13_Witness ==
    \E o \in Objs :
       /\ rcLast = [op |-> "decrement", obj |-> o, before |-> 1]
       /\ rc[o].reference_count = 0
       /\ rc[o].hooks = <<"clean_up", "destructor">>

\* C14: a decrement that leaves the count above 0 lowers it by exactly one
\* and invokes neither hook; a header is therefore without hook calls for as
\* long as its count is above 0 and has had each hook once when it is 0.
C14_NoHookAboveZero ==
    [][\A o \in Objs :
          /\ (rcLast'.op = "decrement" /\ rcLast'.obj = o /\ rc[o].reference_count > 1)
                => /\ rc'[o].reference_count = rc[o].reference_count - 1
                   /\ rc'[o].hooks = rc[o].hooks
          /\ rc'[o].reference_count > 0 => rc'[o].hooks = <<>>
          /\ rc'[o].reference_count = 0 => Len(rc'[o].hooks) = 2]_vars

C14_Witness ==
    \E o \in Objs :
       /\ rcLast = [op |-> "decrement", obj |-> o, before |-> 2]
       /\ rc[o].reference_count = 1
       /\ rc[o].hooks = <<>>

\* ------------------------------------------------- DLDateTime properties
\* Days from 1601-01-01 to the first day of year y, counted in whole
\* Gregorian periods: 400 years hold 146097 days, each of the first three
\* centuries of a period 36524, each complete group of four years inside a
\* century 1461, and each remaining year (never a leap year) 365.
DaysBeforeYear(y) ==
    LET n == y - 1601 IN
    146097 * (n \div 400) + 36524 * ((n % 400) \div 100)
    + 1461 * ((n % 100) \div 4) + 365 * (n % 4)

RECURSIVE DaysBeforeMonth(_, _)
DaysBeforeMonth(y, m) ==
    IF m <= 1 THEN 0 ELSE DaysBeforeMonth(y, m - 1) + DaysInMonth(y, m - 1)

\* The number of 100 ns intervals from 1601-01-01 00:00:00.000 to a valid
\* date and time, in the representation of time64.
IntervalsSince1601(a) ==
    Ticks(DaysBeforeYear(a[1]) + DaysBeforeMonth(a[1], a[2]) + (a[3] - 1),
          ((a[4] * 60 + a[5]) * 60 + a[6]) * 1000 + a[7],
          0)

RECURSIVE EarlierFrom(_, _, _)
\* Chronological order of two argument lists, field by field from i on.
EarlierFrom(a, b, i) ==
    IF i > 7 THEN FALSE
    ELSE a[i] < b[i] \/ (a[i] = b[i] /\ EarlierFrom(a, b, i + 1))

Earlier(a, b) == EarlierFrom(a, b, 1)

\* The last instant whose interval count fits in 64 bits.
LastU64Instant == <<60056, 5, 28, 5, 36, 10, 955>>

Called(dt) == dt.ret # "none"

\* C15 as stated: for every valid date with year >= 1601 and valid time of
\* day, new stores the number of 100 ns intervals since 1601-01-01, so
\* time64 is strictly increasing in chronological order.
C15_Time64AllDates ==
    /\ \A dt \in {dtPrev, dtCur} :
          (Called(dt) /\ ValidDate(dt.args))
          => (dt.ret = "built" /\ dt.time64 = IntervalsSince1601(dt.args))
    /\ (Called(dtPrev) /\ Called(dtCur) /\ ValidDate(dtPrev.args)
        /\ ValidDate(dtCur.args) /\ Earlier(dtPrev.args, dtCur.args))
          => TicksLess(dtPrev.time64, dtCur.time64)

InU64Range(a) == ValidDate(a) /\ ~Earlier(LastU64Instant, a)

\* C15 as amended: the same for the valid dates and times up to
\* 60056-05-28 05:36:10.955, the last instant whose count fits in a u64.
C15_Time64UpToU64Range ==
    /\ \A dt \in {dtPrev, dtCur} :
          (Called(dt) /\ InU64Range(dt.args))
          => (dt.ret = "built" /\ dt.time64 = IntervalsSince1601(dt.args))
    /\ (Called(dtPrev) /\ Called(dtCur) /\ InU64Range(dtPrev.args)
        /\ InU64Range(dtCur.args) /\ Earlier(dtPrev.args, dtCur.args))
          => TicksLess(dtPrev.time64, dtCur.time64)

C15_Witness ==
    /\ overflow_checks
    /\ dtPrev.ret = "built"
    /\ dtPrev.args = <<2000, 2, 29, 23, 59, 59, 999, FALSE>>
    /\ dtCur.ret = "built"
    /\ dtCur.args = <<2000, 3, 1, 0, 0, 0, 0, FALSE>>
    /\ dtCur.time64 = IntervalsSince1601(dtCur.args)
    /\ TicksLess(dtPrev.time64, dtCur.time64)

\* C18: for a value built by new, each accessor returns its argument reduced
\* to the width of its packed field, day_of_week is 0, and so the accessors
\* return the arguments unchanged exactly when every argument fits its field.
C18_AccessorsReturnMaskedArgs ==
    dtCur.ret = "built"
    => LET a == dtCur.args IN
       /\ year(dtCur) = a[1] % 4096
       /\ month(dtCur) = a[2] % 16
       /\ day(dtCur) = a[3] % 32
       /\ hours(dtCur) = a[4] % 32
       /\ minutes(dtCur) = a[5] % 64
       /\ seconds(dtCur) = a[6] % 64
       /\ millisecond(dtCur) = a[7] % 1024
       /\ is_utc(dtCur) = a[8]
       /\ day_of_week(dtCur) = 0
       /\ (<<year(dtCur), month(dtCur), day(dtCur), hours(dtCur),
             minutes(dtCur), seconds(dtCur)>> = SubSeq(a, 1, 6))
          <=> (a[1] < 4096 /\ a[2] < 16 /\ a[3] < 32 /\ a[4] < 32
               /\ a[5] < 64 /\ a[6] < 64)

C18_Witness ==
    /\ dtCur.ret = "built"
    /\ dtCur.args = <<5000, 0, 40, 33, 70, 64, 1023, TRUE>>
    /\ year(dtCur) = 904
    /\ day(dtCur) = 8
    /\ seconds(dtCur) = 0
    /\ dtPrev.ret = "built"
    /\ dtPrev.args = <<4095, 12, 31, 23, 59, 59, 999, TRUE>>
    /\ year(dtPrev) = 4095

\* --------------------------------------- DLFixedVector properties, cont.
\* C16: with C = 0 a default-constructed sequence reports len() == 0,
\* push(v) returns Err carrying v and changes nothing, and drop completes
\* without destroying anything.
C16_ZeroCapacityContract ==
    cap = 0
    => /\ len = [panic |-> FALSE, n |-> 0]
       /\ ctx.op = "push" => (ctx.ret = "Err" /\ ctx.carried = ctx.val)
       /\ ctx.op = "drop" => (ctx.ret = "unit" /\ dropLog = <<>>)
       /\ checked_len = 0

\* C17: after the destructor of an element has panicked inside truncate,
\* the drop of the sequence runs no destructor on a slot whose value has
\* already been destroyed.
C17_DropAfterAbortDestroysOnce ==
    [][(panics > 0 /\ pc = "truncate" /\ ctx.op = "drop"
        /\ elements' # elements)
       => elements[ctx.i].st = "live"]_vars
====
